---- MODULE Spec2Model ----
(***************************************************************************)
(* Model of the icon scripts of legible:                                   *)
(*   assets/menubar-icons/png_to_go.py        (byte-array exporter, main)  *)
(*   assets/menubar-icons/generate_icons.py   (circle / document icons)    *)
(*   scripts/generate_menubar_icons.py        (tablet icon, exporter)      *)
(*   scripts/generate_app_icon.py             (app icon, iconset driver)   *)
(* Text is a sequence of one-character strings; a byte is 0..255.          *)
(***************************************************************************)
EXTENDS Integers, Sequences, FiniteSets, TLC

VARIABLES
    script,     \* the script that is run
    lib,        \* whether the imaging library (PIL) can be imported
    files,      \* png_to_go.py: the state of each input file
    pc,         \* the statement the run is at
    frame,      \* the function that is executing
    taken,      \* how many items the driver's loop has taken
    args,       \* the arguments of the rasterizer call in progress
    img,        \* the canvas last created
    stroke,     \* create_app_icon: the handwriting stroke index i
    png_bytes,  \* generate_menubar_icons.py: the bytes create_icon returned
    disk,       \* the files written, in order
    dirs,       \* the directories created
    stdout,     \* the lines printed to standard output, in order
    stderr,     \* the lines printed to the error stream, in order
    status,     \* the exit status, Running until the process exits
    data,       \* exporter check: the input bytes
    text,       \* the text an exporter returned
    fn          \* exporter check: the exporter that was applied

vars == <<script, lib, files, pc, frame, taken, args, img, stroke, png_bytes, disk, dirs,
          stdout, stderr, status, data, text, fn>>

\* the state of a program run, left alone by the exporter check
runvars == <<script, lib, files, pc, frame, taken, args, img, stroke, png_bytes, disk, dirs,
             stdout, stderr, status>>

(***************************************************************************)
(* Text helpers (Python str methods used by the exporters).                *)
(***************************************************************************)
TAB == "\t"
NL == "\n"
SP == " "
COMMA == ","

\* The characters str.strip()/rstrip() with no argument remove.
Whitespace == {SP, TAB, NL}

HexDigits == <<"0", "1", "2", "3", "4", "5", "6", "7",
               "8", "9", "A", "B", "C", "D", "E", "F">>

\* (variant: f'0x{b:X}', no zero padding)
HexLiteralNoPad(b) ==
    IF b < 16 THEN <<"0", "x", HexDigits[b + 1]>>
    ELSE <<"0", "x", HexDigits[(b \div 16) + 1], HexDigits[(b % 16) + 1]>>

\* f'0x{b:02X}': "0x" and two upper-case hex digits, zero padded.
HexLiteral(b) == <<"0", "x", HexDigits[(b \div 16) + 1], HexDigits[(b % 16) + 1]>>

\* s.rstrip(chars): drop the longest suffix made of characters of chars.
RECURSIVE RStrip(_, _)
RStrip(s, chars) ==
    IF Len(s) > 0 /\ s[Len(s)] \in chars
    THEN RStrip(SubSeq(s, 1, Len(s) - 1), chars)
    ELSE s

\* s.lstrip(chars)
RECURSIVE LStrip(_, _)
LStrip(s, chars) ==
    IF Len(s) > 0 /\ s[1] \in chars
    THEN LStrip(Tail(s), chars)
    ELSE s

\* s.strip(): whitespace removed at both ends.
Strip(s) == LStrip(RStrip(s, Whitespace), Whitespace)

\* sep.join(parts)
RECURSIVE Join(_, _)
Join(sep, parts) ==
    IF Len(parts) = 0 THEN <<>>
    ELSE IF Len(parts) = 1 THEN parts[1]
    ELSE parts[1] \o sep \o Join(sep, Tail(parts))

(***************************************************************************)
(* png_to_go.py: png_to_go_bytes, on the bytes read from the file.         *)
(***************************************************************************)
bytes_per_line == 12

Min(a, b) == IF a < b THEN a ELSE b

\* (variant: the slice is one byte short)
ChunkShort(d, i) == SubSeq(d, i + 1, Min(i + bytes_per_line - 1, Len(d)))

\* data[i:i+bytes_per_line] for a 0-based offset i.
Chunk(d, i) == SubSeq(d, i + 1, Min(i + bytes_per_line, Len(d)))

\* ', '.join(f'0x{b:02X}' for b in chunk)
HexValues(chunk) == Join(<<COMMA, SP>>, [k \in 1..Len(chunk) |-> HexLiteral(chunk[k])])

\* f'\t\t{hex_values},'
PngLine(chunk) == <<TAB, TAB>> \o HexValues(chunk) \o <<COMMA>>

\* the lines list after the loop over range(0, len(data), bytes_per_line)
RECURSIVE PngLines(_, _)
PngLines(d, i) ==
    IF i >= Len(d) THEN <<>>
    ELSE <<PngLine(Chunk(d, i))>> \o PngLines(d, i + bytes_per_line)

png_to_go_bytes(d) == Join(<<NL>>, PngLines(d, 0))

(***************************************************************************)
(* generate_menubar_icons.py: bytes_to_go_array.                           *)
(***************************************************************************)
\* (variant: line.rstrip(), which keeps the comma)
FlushLineKeepComma(line) == RStrip(line, Whitespace)

\* line.rstrip(', ') of the trailing partial line
FlushLine(line) == RStrip(line, {COMMA, SP})

\* One iteration of the loop over enumerate(png_bytes); st = [lines, line],
\* i is the 0-based index of byte b.
B2GStep(st, i, b) ==
    LET line == st.line \o HexLiteral(b) \o <<COMMA, SP>>
    IN  IF (i + 1) % 12 = 0
        THEN [lines |-> Append(st.lines, RStrip(line, Whitespace)),
              line |-> <<TAB, TAB>>]
        ELSE [lines |-> st.lines, line |-> line]

RECURSIVE B2GLoop(_, _, _)
B2GLoop(st, d, i) ==
    IF i >= Len(d) THEN st
    ELSE B2GLoop(B2GStep(st, i, d[i + 1]), d, i + 1)

B2GLines(d) ==
    LET st == B2GLoop([lines |-> <<>>, line |-> <<TAB, TAB>>], d, 0)
    IN  IF Len(Strip(st.line)) > 0
        THEN Append(st.lines, FlushLine(st.line))
        ELSE st.lines

bytes_to_go_array(d) == Join(<<NL>>, B2GLines(d))

(***************************************************************************)
(* Reading an emitted text back: split into lines, read the 0xNN literals  *)
(* of each line left to right.                                             *)
(***************************************************************************)
HexValue(c) == CHOOSE v \in 0..15 : HexDigits[v + 1] = c

IsHex(c) == \E v \in 1..16 : HexDigits[v] = c

\* s.split(c): the pieces of s between the occurrences of character c.
Split(s, c) ==
    LET P == {p \in 1..Len(s) : s[p] = c}
        n == Cardinality(P)
        pos(k) == IF k = 0 THEN 0
                  ELSE IF k = n + 1 THEN Len(s) + 1
                  ELSE CHOOSE p \in P : Cardinality({q \in P : q <= p}) = k
    IN  [k \in 1..(n + 1) |-> SubSeq(s, pos(k - 1) + 1, pos(k) - 1)]

\* The lines of a text: none for the empty text (str.splitlines()).
LinesOf(t) == IF Len(t) = 0 THEN <<>> ELSE Split(t, NL)

\* A token that is no 0xNN literal reads as Malformed.
Malformed == 0 - 1

\* One comma-separated field of a line, surrounding whitespace ignored:
\* <<>> for an empty field, <<value>> for a 0xNN literal.
FieldValue(f) ==
    LET w == Strip(f)
    IN  IF Len(w) = 0 THEN <<>>
        ELSE IF Len(w) = 4 /\ w[1] = "0" /\ w[2] = "x" /\ IsHex(w[3]) /\ IsHex(w[4])
             THEN <<16 * HexValue(w[3]) + HexValue(w[4])>>
             ELSE <<Malformed>>

RECURSIVE Flatten(_)
Flatten(ss) == IF Len(ss) = 0 THEN <<>> ELSE ss[1] \o Flatten(Tail(ss))

\* The values of the literals of one line, left to right.
Literals(line) ==
    LET fs == Split(line, COMMA)
    IN  Flatten([k \in 1..Len(fs) |-> FieldValue(fs[k])])

\* The values of the literals of a text, top to bottom, left to right.
Decode(t) == Flatten([k \in 1..Len(LinesOf(t)) |-> Literals(LinesOf(t)[k])])


(***************************************************************************)
(* Images: a canvas of fixed dimensions and the drawing calls made on it,  *)
(* in order (PIL Image.new and ImageDraw.Draw).                            *)
(***************************************************************************)
Transparent == <<0, 0, 0, 0>>

\* Image.new('RGBA', (w, h), (0, 0, 0, 0))
NewImage(w, h) == [w |-> w, h |-> h, shapes |-> <<>>]

NoImage == NewImage(0, 0)

\* a draw.<shape>(...) call: the canvas keeps its dimensions
Draw(im, shape) == [im EXCEPT !.shapes = Append(@, shape)]

\* The pixels draw.ellipse(xy, fill=...) paints: those of the bounding box
\* xy = <<x0, y0, x1, y1>> (both corners included) that lie in the ellipse
\* inscribed in it.
InEllipse(xy, x, y) ==
    LET dx == xy[3] - xy[1]
        dy == xy[4] - xy[2]
        u == 2 * x - xy[1] - xy[3]
        v == 2 * y - xy[2] - xy[4]
    IN  /\ xy[1] <= x /\ x <= xy[3]
        /\ xy[2] <= y /\ y <= xy[4]
        /\ u * u * dy * dy + v * v * dx * dx <= dx * dx * dy * dy

Covers(shape, x, y) ==
    CASE shape.kind = "ellipse" -> InEllipse(shape.xy, x, y)
      [] shape.kind = "rectangle" ->
            /\ shape.xy[1] <= x /\ x <= shape.xy[3]
            /\ shape.xy[2] <= y /\ y <= shape.xy[4]

\* img.getpixel((x, y)): the fill of the last drawing call that covers the
\* pixel, the canvas's initial value when none does.
RECURSIVE PixelOf(_, _, _, _)
PixelOf(shapes, n, x, y) ==
    IF n = 0 THEN Transparent
    ELSE IF Covers(shapes[n], x, y) THEN shapes[n].fill
    ELSE PixelOf(shapes, n - 1, x, y)

GetPixel(im, x, y) == PixelOf(im.shapes, Len(im.shapes), x, y)

(***************************************************************************)
(* generate_icons.py: create_circle_icon, create_document_icon.            *)
(***************************************************************************)
\* (variant: alpha 0)
OpaqueFillTransparent(color) == color \o <<0>>

\* fill=color + (255,)
OpaqueFill(color) == color \o <<255>>

\* draw.ellipse([padding, padding, padding + circle_size, padding + circle_size], ...)
CircleShape(color, size) ==
    LET padding == 3
        circle_size == size - (padding * 2)
    IN  [kind |-> "ellipse",
         xy |-> <<padding, padding, padding + circle_size, padding + circle_size>>,
         fill |-> OpaqueFill(color)]

\* the three drawing calls of create_document_icon
DocumentShapes(color, size) ==
    LET doc_padding == 4
        doc_width == size - (doc_padding * 2)
        doc_height == size - (doc_padding * 2)
        fold_size == 4
        dot_size == 6
        dot_x == size - doc_padding - dot_size - 1
        dot_y == size - doc_padding - dot_size - 1
    IN  << [kind |-> "rectangle",
            xy |-> <<doc_padding, doc_padding,
                     doc_padding + doc_width, doc_padding + doc_height>>,
            fill |-> <<160, 160, 160, 255>>],
           [kind |-> "polygon",
            points |-> << <<size - doc_padding - fold_size, doc_padding>>,
                          <<size - doc_padding, doc_padding>>,
                          <<size - doc_padding, doc_padding + fold_size>> >>,
            fill |-> <<100, 100, 100, 255>>],
           [kind |-> "ellipse",
            xy |-> <<dot_x, dot_y, dot_x + dot_size, dot_y + dot_size>>,
            fill |-> OpaqueFill(color)] >>

(***************************************************************************)
(* generate_menubar_icons.py: create_icon.                                 *)
(***************************************************************************)
\* the six drawing calls of create_icon
IconShapes(status_color) ==
    LET icon_color == <<0, 0, 0, 255>>
        tip_pos == <<17, 14>>
        dot_center == <<18, 5>>
        dot_radius == 3
        halo_radius == dot_radius + 1
        dot_box == <<dot_center[1] - dot_radius, dot_center[2] - dot_radius,
                     dot_center[1] + dot_radius, dot_center[2] + dot_radius>>
    IN  << [kind |-> "rounded_rectangle", xy |-> <<2, 4, 15, 18>>, radius |-> 2,
            outline |-> icon_color, width |-> 1],
           [kind |-> "line", points |-> << <<6, 3>>, <<17, 14>> >>,
            fill |-> icon_color, width |-> 2],
           [kind |-> "ellipse",
            xy |-> <<tip_pos[1] - 1, tip_pos[2] - 1, tip_pos[1] + 1, tip_pos[2] + 1>>,
            fill |-> icon_color],
           [kind |-> "ellipse",
            xy |-> <<dot_center[1] - halo_radius, dot_center[2] - halo_radius,
                     dot_center[1] + halo_radius, dot_center[2] + halo_radius>>,
            fill |-> <<255, 255, 255, 180>>],
           [kind |-> "ellipse", xy |-> dot_box, fill |-> status_color],
           [kind |-> "ellipse", xy |-> dot_box, outline |-> icon_color, width |-> 1] >>

RECURSIVE DrawAll(_, _)
DrawAll(im, shapes) ==
    IF Len(shapes) = 0 THEN im ELSE DrawAll(Draw(im, shapes[1]), Tail(shapes))

(***************************************************************************)
(* generate_app_icon.py: create_app_icon.                                  *)
(***************************************************************************)
\* int(n * scale) with scale = size / 512.0 (size/512 and n*scale are exact
\* in binary floating point, so the truncation is that of n*size/512).
ScaledInt(n, size) == (n * size) \div 512

Max(a, b) == IF a > b THEN a ELSE b

\* tablet_rect = [padding, padding, size - padding, size - padding]
TabletRect(size) ==
    LET padding == ScaledInt(40, size)
    IN  <<padding, padding, size - padding, size - padding>>

\* screen_rect: tablet_rect shrunk by screen_padding on every side
ScreenRect(size) ==
    LET screen_padding == ScaledInt(20, size)
        t == TabletRect(size)
    IN  <<t[1] + screen_padding, t[2] + screen_padding,
          t[3] - screen_padding, t[4] - screen_padding>>

\* the shadow, the tablet body and the screen
AppBodyShapes(size) ==
    LET t == TabletRect(size)
        radius == ScaledInt(40, size)
        shadow_offset == ScaledInt(6, size)
    IN  << [kind |-> "rounded_rectangle",
            xy |-> <<t[1] + shadow_offset, t[2] + shadow_offset,
                     t[3] + shadow_offset, t[4] + shadow_offset>>,
            radius |-> radius, fill |-> <<0, 0, 0, 60>>],
           [kind |-> "rounded_rectangle", xy |-> t, radius |-> radius,
            fill |-> <<60, 60, 60, 255>>],
           [kind |-> "rounded_rectangle", xy |-> ScreenRect(size),
            radius |-> ScaledInt(20, size), fill |-> <<240, 240, 240, 255>>] >>

\* y = y_start + i * int(50 * scale), y_start = screen_rect[1] + int(60 * scale)
StrokeY(size, n) == ScreenRect(size)[2] + ScaledInt(60, size) + n * ScaledInt(50, size)

\* (variant: compared with the top of the screen, screen_rect[1])
StrokeGuardTop(size, n) == StrokeY(size, n) + ScaledInt(20, size) < ScreenRect(size)[2]

\* if y + int(20 * scale) < screen_rect[3]
StrokeGuard(size, n) == StrokeY(size, n) + ScaledInt(20, size) < ScreenRect(size)[4]

\* the wavy line of stroke n; a point is <<20 * x, y>> (x is a float with
\* denominator segments = 20)
StrokeShape(size, n) ==
    LET segments == 20
        x_start == ScreenRect(size)[1] + ScaledInt(40, size)
        x_end == ScreenRect(size)[3] - ScaledInt(40, size)
        wave(j) == ScaledInt(8, size) * (IF (j \div 3) % 2 = 0 THEN 1 ELSE 0 - 1)
    IN  [kind |-> "line",
         points |-> [j1 \in 1..(segments + 1) |->
                        <<segments * x_start + (x_end - x_start) * (j1 - 1),
                          StrokeY(size, n) + wave(j1 - 1)>>],
         fill |-> <<100, 100, 100, 180>>,
         width |-> Max(2, ScaledInt(4, size)),
         joint |-> "curve"]

\* the pen body, the pen tip and the brand accent
AppPenShapes(size) ==
    LET t == TabletRect(size)
        pen_start_x == t[3] - ScaledInt(100, size)
        pen_start_y == t[2] + ScaledInt(50, size)
        pen_end_x == pen_start_x + ScaledInt(140, size)
        pen_end_y == pen_start_y + ScaledInt(140, size)
        tip_radius == ScaledInt(8, size)
        indicator_size == ScaledInt(12, size)
        indicator_x == t[1] + ScaledInt(30, size)
        indicator_y == t[2] + ScaledInt(30, size)
    IN  << [kind |-> "line",
            points |-> << <<pen_start_x, pen_start_y>>, <<pen_end_x, pen_end_y>> >>,
            fill |-> <<100, 100, 100, 255>>, width |-> ScaledInt(12, size)],
           [kind |-> "ellipse",
            xy |-> <<pen_end_x - tip_radius, pen_end_y - tip_radius,
                     pen_end_x + tip_radius, pen_end_y + tip_radius>>,
            fill |-> <<40, 40, 40, 255>>],
           [kind |-> "ellipse",
            xy |-> <<indicator_x - indicator_size, indicator_y - indicator_size,
                     indicator_x + indicator_size, indicator_y + indicator_size>>,
            fill |-> <<52, 199, 89, 255>>] >>

(***************************************************************************)
(* The drivers' tables.                                                    *)
(***************************************************************************)
\* the keys of the icons / colors dictionaries, in insertion order
IconNames == <<"green", "yellow", "red">>

\* str.capitalize() of the three keys
Capitalize(name) ==
    CASE name = "green" -> "Green"
      [] name = "yellow" -> "Yellow"
      [] name = "red" -> "Red"

\* generate_icons.py: colors
StatusColors == <<<<52, 199, 89>>, <<255, 204, 0>>, <<255, 59, 48>>>>

\* generate_menubar_icons.py: colors
MenubarColors == <<<<52, 199, 89, 255>>, <<255, 214, 10, 255>>, <<255, 69, 58, 255>>>>

\* generate_app_icon.py: sizes, iconset_dir
sizes == <<16, 32, 64, 128, 256, 512, 1024>>
iconset_dir == "/tmp/Legible.iconset"

\* (variant: size < 512)
NeedsRetinaStrict(size) == size < 512

\* if size <= 512
NeedsRetina(size) == size <= 512

\* f"icon-{color_name}-22.png", also the input files of png_to_go.py
CirclePath(name) == <<"icon-", name, "-22.png">>
\* f"icon-{color_name}-doc-22.png"
DocumentPath(name) == <<"icon-", name, "-doc-22.png">>
\* f'/tmp/menubar_icon_{name}_v2.png'
MenubarPath(name) == <<"/tmp/menubar_icon_", name, "_v2.png">>
\* f"icon_{size}x{size}.png" and f"icon_{size}x{size}@2x.png"
IconsetName(size, retina) ==
    <<"icon_", ToString(size), "x", ToString(size), IF retina THEN "@2x.png" ELSE ".png">>
\* f"{iconset_dir}/..."
IconsetPath(name) == <<iconset_dir, "/">> \o name

\* img.save(path): the file holds the canvas, with its dimensions
ImageFile(path, im) == [path |-> path, w |-> im.w, h |-> im.h, shapes |-> im.shapes]

\* f.write(png_bytes)
BytesFile(path, bytes) == [path |-> path, bytes |-> bytes]

Running == 0 - 1

(***************************************************************************)
(* The run of a script.                                                    *)
(***************************************************************************)
Scripts == {"png_to_go", "generate_icons", "generate_menubar_icons", "generate_app_icon"}

\* the scripts that import PIL at module level
PilScripts == Scripts \ {"png_to_go"}

Rasterizers == {"create_circle_icon", "create_document_icon", "create_icon",
                "create_app_icon"}

NoArgs == [ret |-> "none"]

\* an input file of png_to_go.py: missing, a readable file, or a path that
\* exists and cannot be read
FileOf(kind, bytes) == [kind |-> kind, bytes |-> bytes]

\* data[k] = (start + k*step) mod 256
Ramp(n, start, step) == [k1 \in 1..n |-> (start + (k1 - 1) * step) % 256]

PngSignature == <<137, 80, 78, 71, 13, 10, 26, 10>>

FileStates ==
    {FileOf("missing", <<>>), FileOf("unreadable", <<>>),
     FileOf("file", <<>>), FileOf("file", PngSignature \o Ramp(5, 0, 17))}

\* what img.save(byte_arr, format='PNG') may leave in the buffer: the PNG
\* signature and an encoded body
PngOutputs == {PngSignature \o Ramp(n, 0, 17) : n \in {4, 5, 16}}

Traceback(exc) == <<"Traceback (most recent call last):", exc>>

\* an exception no handler catches: the interpreter prints the traceback and
\* exits with status 1
Raise(exc) ==
    /\ stderr' = Append(stderr, Traceback(exc))
    /\ status' = 1
    /\ pc' = "exited"
    /\ frame' = "none"

RunInit ==
    /\ script \in Scripts
    /\ lib \in (IF script \in PilScripts THEN BOOLEAN ELSE {TRUE})
    /\ files \in (IF script = "png_to_go"
                  THEN [1..Len(IconNames) -> FileStates]
                  ELSE {[n \in 1..Len(IconNames) |-> FileOf("missing", <<>>)]})
    /\ pc = (IF script \in PilScripts THEN "import" ELSE "main")
    /\ frame = "module"
    /\ taken = 0
    /\ args = NoArgs
    /\ img = NoImage
    /\ stroke = 0
    /\ png_bytes = <<>>
    /\ disk = <<>>
    /\ dirs = {}
    /\ stdout = <<>>
    /\ stderr = <<>>
    /\ status = Running
    /\ data = <<>>
    /\ text = <<>>
    /\ fn = "none"

\* from PIL import Image, ImageDraw (module level) succeeds
ImportOk ==
    /\ pc = "import" /\ lib
    /\ pc' = (IF script = "generate_app_icon" THEN "makedirs" ELSE "main")
    /\ frame' = "main"
    /\ UNCHANGED <<script, lib, files, taken, args, img, stroke, png_bytes, disk, dirs,
                   stdout, stderr, status, data, text, fn>>

\* the module-level import raises ImportError: in each script it precedes
\* every handler
ImportFail ==
    /\ pc = "import" /\ ~lib
    /\ Raise("ImportError")
    /\ UNCHANGED <<script, lib, files, taken, args, img, stroke, png_bytes, disk, dirs,
                   stdout, data, text, fn>>

\* (variant: the error is logged and the run goes on)
OnWriteErrorLogged(cont) == cont

\* where a run goes when a write raises OSError: nothing catches it
OnWriteError(cont) == "exited"

\* the statement after a write
AfterWrite(at) ==
    CASE at = "save" -> "print"
      [] at = "save2x" -> "print2x"
      [] at = "makedirs" -> "loop"

\* img.save(...), open(...)/f.write(...) or os.makedirs(...) raises OSError
WriteFail ==
    /\ pc \in {"save", "save2x", "makedirs"}
    /\ LET to == OnWriteError(AfterWrite(pc))
       IN  /\ pc' = to
           /\ stderr' = Append(stderr, Traceback("OSError"))
           /\ status' = (IF to = "exited" THEN 1 ELSE status)
           /\ frame' = (IF to = "exited" THEN "none" ELSE frame)
    /\ UNCHANGED <<script, lib, files, taken, args, img, stroke, png_bytes, disk, dirs,
                   stdout, data, text, fn>>

\* the process ends normally
Exit ==
    /\ pc' = "exited"
    /\ frame' = "none"
    /\ status' = 0

(***************************************************************************)
(* generate_icons.py                                                       *)
(***************************************************************************)
GIMainStart ==
    /\ script = "generate_icons" /\ pc = "main"
    /\ stdout' = stdout \o << <<"Generating menu bar icons...">>,
                              <<"Style: Simple circles (clean and minimal)">> >>
    /\ pc' = "circle_loop"
    /\ taken' = 0
    /\ UNCHANGED <<script, lib, files, frame, args, img, stroke, png_bytes, disk, dirs,
                   stderr, status, data, text, fn>>

\* for color_name, rgb in colors.items(): create_circle_icon(rgb, output, size=22)
GICircleCall ==
    /\ script = "generate_icons" /\ pc = "circle_loop" /\ taken < Len(IconNames)
    /\ taken' = taken + 1
    /\ args' = [color |-> StatusColors[taken + 1],
                output_path |-> CirclePath(IconNames[taken + 1]),
                size |-> 22, ret |-> "circle_loop"]
    /\ frame' = "create_circle_icon"
    /\ pc' = "new"
    /\ UNCHANGED <<script, lib, files, img, stroke, png_bytes, disk, dirs,
                   stdout, stderr, status, data, text, fn>>

GICircleDone ==
    /\ script = "generate_icons" /\ pc = "circle_loop" /\ taken = Len(IconNames)
    /\ stdout' = Append(stdout, <<"\nGenerating document-style icons (alternative)...">>)
    /\ pc' = "doc_loop"
    /\ taken' = 0
    /\ UNCHANGED <<script, lib, files, frame, args, img, stroke, png_bytes, disk, dirs,
                   stderr, status, data, text, fn>>

\* for color_name, rgb in colors.items(): create_document_icon(rgb, output, size=22)
GIDocCall ==
    /\ script = "generate_icons" /\ pc = "doc_loop" /\ taken < Len(IconNames)
    /\ taken' = taken + 1
    /\ args' = [color |-> StatusColors[taken + 1],
                output_path |-> DocumentPath(IconNames[taken + 1]),
                size |-> 22, ret |-> "doc_loop"]
    /\ frame' = "create_document_icon"
    /\ pc' = "new"
    /\ UNCHANGED <<script, lib, files, img, stroke, png_bytes, disk, dirs,
                   stdout, stderr, status, data, text, fn>>

GIDocDone ==
    /\ script = "generate_icons" /\ pc = "doc_loop" /\ taken = Len(IconNames)
    /\ stdout' = stdout \o
          << <<"\nAll icons generated successfully!">>,
             <<"\nUsage:">>,
             <<"- Use the simple circle icons (icon-*-22.png) for best menu bar visibility">>,
             <<"- Document icons available as alternative if preferred">>,
             <<"- To use in Go: read PNG file and embed in icons.go">> >>
    /\ Exit
    /\ UNCHANGED <<script, lib, files, taken, args, img, stroke, png_bytes, disk, dirs,
                   stderr, data, text, fn>>

\* create_circle_icon: img = Image.new('RGBA', (size, size), (0, 0, 0, 0))
CircleNew ==
    /\ frame = "create_circle_icon" /\ pc = "new"
    /\ img' = NewImage(args.size, args.size)
    /\ pc' = "draw"
    /\ UNCHANGED <<script, lib, files, frame, taken, args, stroke, png_bytes, disk, dirs,
                   stdout, stderr, status, data, text, fn>>

\* create_circle_icon: draw.ellipse(...)
CircleDraw ==
    /\ frame = "create_circle_icon" /\ pc = "draw"
    /\ img' = Draw(img, CircleShape(args.color, args.size))
    /\ pc' = "save"
    /\ UNCHANGED <<script, lib, files, frame, taken, args, stroke, png_bytes, disk, dirs,
                   stdout, stderr, status, data, text, fn>>

\* (variant: the image is not saved)
CircleSaveSkipped ==
    /\ frame = "create_circle_icon" /\ pc = "save"
    /\ pc' = "print"
    /\ UNCHANGED <<script, lib, files, frame, taken, args, img, stroke, png_bytes, disk,
                   dirs, stdout, stderr, status, data, text, fn>>

\* create_circle_icon: img.save(output_path, 'PNG')
CircleSave ==
    /\ frame = "create_circle_icon" /\ pc = "save"
    /\ disk' = Append(disk, ImageFile(args.output_path, img))
    /\ pc' = "print"
    /\ UNCHANGED <<script, lib, files, frame, taken, args, img, stroke, png_bytes, dirs,
                   stdout, stderr, status, data, text, fn>>

\* create_circle_icon: print(f"Created: {output_path}")
CirclePrint ==
    /\ frame = "create_circle_icon" /\ pc = "print"
    /\ stdout' = Append(stdout, <<"Created: ">> \o args.output_path)
    /\ pc' = "return"
    /\ UNCHANGED <<script, lib, files, frame, taken, args, img, stroke, png_bytes, disk,
                   dirs, stderr, status, data, text, fn>>

\* create_circle_icon returns to its caller
CircleReturn ==
    /\ frame = "create_circle_icon" /\ pc = "return"
    /\ frame' = "main"
    /\ pc' = args.ret
    /\ UNCHANGED <<script, lib, files, taken, args, img, stroke, png_bytes, disk, dirs,
                   stdout, stderr, status, data, text, fn>>

\* create_document_icon: img = Image.new('RGBA', (size, size), (0, 0, 0, 0))
DocNew ==
    /\ frame = "create_document_icon" /\ pc = "new"
    /\ img' = NewImage(args.size, args.size)
    /\ pc' = "draw"
    /\ UNCHANGED <<script, lib, files, frame, taken, args, stroke, png_bytes, disk, dirs,
                   stdout, stderr, status, data, text, fn>>

\* create_document_icon: draw.rectangle, draw.polygon, draw.ellipse
DocDraw ==
    /\ frame = "create_document_icon" /\ pc = "draw"
    /\ img' = DrawAll(img, DocumentShapes(args.color, args.size))
    /\ pc' = "save"
    /\ UNCHANGED <<script, lib, files, frame, taken, args, stroke, png_bytes, disk, dirs,
                   stdout, stderr, status, data, text, fn>>

\* create_document_icon: img.save(output_path, 'PNG')
DocSave ==
    /\ frame = "create_document_icon" /\ pc = "save"
    /\ disk' = Append(disk, ImageFile(args.output_path, img))
    /\ pc' = "print"
    /\ UNCHANGED <<script, lib, files, frame, taken, args, img, stroke, png_bytes, dirs,
                   stdout, stderr, status, data, text, fn>>

\* create_document_icon: print(f"Created: {output_path}")
DocPrint ==
    /\ frame = "create_document_icon" /\ pc = "print"
    /\ stdout' = Append(stdout, <<"Created: ">> \o args.output_path)
    /\ pc' = "return"
    /\ UNCHANGED <<script, lib, files, frame, taken, args, img, stroke, png_bytes, disk,
                   dirs, stderr, status, data, text, fn>>

\* create_document_icon returns to its caller
DocReturn ==
    /\ frame = "create_document_icon" /\ pc = "return"
    /\ frame' = "main"
    /\ pc' = args.ret
    /\ UNCHANGED <<script, lib, files, taken, args, img, stroke, png_bytes, disk, dirs,
                   stdout, stderr, status, data, text, fn>>

(***************************************************************************)
(* generate_menubar_icons.py                                               *)
(***************************************************************************)
GMMainStart ==
    /\ script = "generate_menubar_icons" /\ pc = "main"
    /\ stdout' = Append(stdout, <<"Generating dark mode compatible menu bar icons...\n">>)
    /\ pc' = "loop"
    /\ taken' = 0
    /\ UNCHANGED <<script, lib, files, frame, args, img, stroke, png_bytes, disk, dirs,
                   stderr, status, data, text, fn>>

\* for name, color in colors.items(): png_bytes = create_icon(color)
GMCall ==
    /\ script = "generate_menubar_icons" /\ pc = "loop" /\ taken < Len(IconNames)
    /\ taken' = taken + 1
    /\ args' = [status_color |-> MenubarColors[taken + 1],
                name |-> IconNames[taken + 1], ret |-> "convert"]
    /\ frame' = "create_icon"
    /\ pc' = "new"
    /\ UNCHANGED <<script, lib, files, img, stroke, png_bytes, disk, dirs,
                   stdout, stderr, status, data, text, fn>>

\* create_icon: img = Image.new('RGBA', (22, 22), (0, 0, 0, 0))
IconNew ==
    /\ frame = "create_icon" /\ pc = "new"
    /\ img' = NewImage(22, 22)
    /\ pc' = "draw"
    /\ UNCHANGED <<script, lib, files, frame, taken, args, stroke, png_bytes, disk, dirs,
                   stdout, stderr, status, data, text, fn>>

\* create_icon: the six drawing calls
IconDraw ==
    /\ frame = "create_icon" /\ pc = "draw"
    /\ img' = DrawAll(img, IconShapes(args.status_color))
    /\ pc' = "encode"
    /\ UNCHANGED <<script, lib, files, frame, taken, args, stroke, png_bytes, disk, dirs,
                   stdout, stderr, status, data, text, fn>>

\* (variant: the PNG is also written to the icon's file)
IconEncodeToDisk ==
    /\ frame = "create_icon" /\ pc = "encode"
    /\ png_bytes' \in PngOutputs
    /\ disk' = Append(disk, BytesFile(MenubarPath(args.name), png_bytes'))
    /\ pc' = "return"
    /\ UNCHANGED <<script, lib, files, frame, taken, args, img, stroke, dirs,
                   stdout, stderr, status, data, text, fn>>

\* create_icon: img.save(byte_arr, format='PNG') into an in-memory buffer,
\* and the return of byte_arr.getvalue()
IconEncode ==
    /\ frame = "create_icon" /\ pc = "encode"
    /\ png_bytes' \in PngOutputs
    /\ pc' = "return"
    /\ UNCHANGED <<script, lib, files, frame, taken, args, img, stroke, disk, dirs,
                   stdout, stderr, status, data, text, fn>>

IconReturn ==
    /\ frame = "create_icon" /\ pc = "return"
    /\ frame' = "main"
    /\ pc' = args.ret
    /\ UNCHANGED <<script, lib, files, taken, args, img, stroke, png_bytes, disk, dirs,
                   stdout, stderr, status, data, text, fn>>

\* go_array = bytes_to_go_array(png_bytes) and the six prints of the block
GMConvertPrint ==
    /\ script = "generate_menubar_icons" /\ pc = "convert"
    /\ text' = bytes_to_go_array(png_bytes)
    /\ stdout' = stdout \o
          << <<"// icon", Capitalize(args.name), " - ", ToString(Len(png_bytes)), " bytes">>,
             <<"func icon", Capitalize(args.name), "() []byte {">>,
             <<"\treturn []byte{">>,
             <<"go_array", text'>>,
             <<"\t}">>,
             <<"}\n">> >>
    /\ pc' = "save"
    /\ UNCHANGED <<script, lib, files, frame, taken, args, img, stroke, png_bytes, disk,
                   dirs, stderr, status, data, fn>>

\* with open(f'/tmp/menubar_icon_{name}_v2.png', 'wb') as f: f.write(png_bytes)
GMWrite ==
    /\ script = "generate_menubar_icons" /\ pc = "save"
    /\ disk' = Append(disk, BytesFile(MenubarPath(args.name), png_bytes))
    /\ pc' = "print"
    /\ UNCHANGED <<script, lib, files, frame, taken, args, img, stroke, png_bytes, dirs,
                   stdout, stderr, status, data, text, fn>>

\* print(f"Saved to: /tmp/menubar_icon_{name}_v2.png")
GMPrint ==
    /\ script = "generate_menubar_icons" /\ pc = "print"
    /\ stdout' = Append(stdout, <<"Saved to: ">> \o MenubarPath(args.name))
    /\ pc' = "loop"
    /\ UNCHANGED <<script, lib, files, frame, taken, args, img, stroke, png_bytes, disk,
                   dirs, stderr, status, data, text, fn>>

GMDone ==
    /\ script = "generate_menubar_icons" /\ pc = "loop" /\ taken = Len(IconNames)
    /\ Exit
    /\ UNCHANGED <<script, lib, files, taken, args, img, stroke, png_bytes, disk, dirs,
                   stdout, stderr, data, text, fn>>

(***************************************************************************)
(* generate_app_icon.py                                                    *)
(***************************************************************************)
\* os.makedirs(iconset_dir, exist_ok=True)
GAMakedirs ==
    /\ script = "generate_app_icon" /\ pc = "makedirs"
    /\ dirs' = dirs \cup {iconset_dir}
    /\ pc' = "loop"
    /\ taken' = 0
    /\ UNCHANGED <<script, lib, files, frame, args, img, stroke, png_bytes, disk,
                   stdout, stderr, status, data, text, fn>>

\* for size in sizes: img = create_app_icon(size)
GACall ==
    /\ script = "generate_app_icon" /\ pc = "loop" /\ taken < Len(sizes)
    /\ taken' = taken + 1
    /\ args' = [size |-> sizes[taken + 1], ret |-> "save"]
    /\ frame' = "create_app_icon"
    /\ pc' = "new"
    /\ UNCHANGED <<script, lib, files, img, stroke, png_bytes, disk, dirs,
                   stdout, stderr, status, data, text, fn>>

\* create_app_icon: img = Image.new('RGBA', (size, size), (0, 0, 0, 0))
AppNew ==
    /\ frame = "create_app_icon" /\ pc = "new"
    /\ img' = NewImage(args.size, args.size)
    /\ pc' = "body"
    /\ UNCHANGED <<script, lib, files, frame, taken, args, stroke, png_bytes, disk, dirs,
                   stdout, stderr, status, data, text, fn>>

\* create_app_icon: shadow, tablet body, screen
AppBody ==
    /\ frame = "create_app_icon" /\ pc = "body"
    /\ img' = DrawAll(img, AppBodyShapes(args.size))
    /\ pc' = "strokes"
    /\ stroke' = 0
    /\ UNCHANGED <<script, lib, files, frame, taken, args, png_bytes, disk, dirs,
                   stdout, stderr, status, data, text, fn>>

\* create_app_icon: one iteration of for i in range(3)
AppStroke ==
    /\ frame = "create_app_icon" /\ pc = "strokes" /\ stroke < 3
    /\ img' = (IF StrokeGuard(args.size, stroke)
               THEN Draw(img, StrokeShape(args.size, stroke))
               ELSE img)
    /\ stroke' = stroke + 1
    /\ UNCHANGED <<script, lib, files, pc, frame, taken, args, png_bytes, disk, dirs,
                   stdout, stderr, status, data, text, fn>>

\* create_app_icon: pen body, pen tip, brand accent
AppPen ==
    /\ frame = "create_app_icon" /\ pc = "strokes" /\ stroke = 3
    /\ img' = DrawAll(img, AppPenShapes(args.size))
    /\ pc' = "return"
    /\ UNCHANGED <<script, lib, files, frame, taken, args, stroke, png_bytes, disk, dirs,
                   stdout, stderr, status, data, text, fn>>

\* create_app_icon: return img
AppReturn ==
    /\ frame = "create_app_icon" /\ pc = "return"
    /\ frame' = "main"
    /\ pc' = args.ret
    /\ UNCHANGED <<script, lib, files, taken, args, img, stroke, png_bytes, disk, dirs,
                   stdout, stderr, status, data, text, fn>>

\* img.save(f"{iconset_dir}/icon_{size}x{size}.png")
GASave ==
    /\ script = "generate_app_icon" /\ pc = "save"
    /\ disk' = Append(disk, ImageFile(IconsetPath(IconsetName(sizes[taken], FALSE)), img))
    /\ pc' = "print"
    /\ UNCHANGED <<script, lib, files, frame, taken, args, img, stroke, png_bytes, dirs,
                   stdout, stderr, status, data, text, fn>>

\* print(f"Generated icon_{size}x{size}.png")
GAPrint ==
    /\ script = "generate_app_icon" /\ pc = "print"
    /\ stdout' = Append(stdout, <<"Generated ">> \o IconsetName(sizes[taken], FALSE))
    /\ pc' = "retina"
    /\ UNCHANGED <<script, lib, files, frame, taken, args, img, stroke, png_bytes, disk,
                   dirs, stderr, status, data, text, fn>>

\* if size <= 512: img_2x = create_app_icon(size * 2)
GARetinaCall ==
    /\ script = "generate_app_icon" /\ pc = "retina" /\ NeedsRetina(sizes[taken])
    /\ args' = [size |-> sizes[taken] * 2, ret |-> "save2x"]
    /\ frame' = "create_app_icon"
    /\ pc' = "new"
    /\ UNCHANGED <<script, lib, files, taken, img, stroke, png_bytes, disk, dirs,
                   stdout, stderr, status, data, text, fn>>

\* size > 512: no @2x image
GARetinaSkip ==
    /\ script = "generate_app_icon" /\ pc = "retina" /\ ~NeedsRetina(sizes[taken])
    /\ pc' = "loop"
    /\ UNCHANGED <<script, lib, files, frame, taken, args, img, stroke, png_bytes, disk,
                   dirs, stdout, stderr, status, data, text, fn>>

\* img_2x.save(f"{iconset_dir}/icon_{size}x{size}@2x.png")
GASave2x ==
    /\ script = "generate_app_icon" /\ pc = "save2x"
    /\ disk' = Append(disk, ImageFile(IconsetPath(IconsetName(sizes[taken], TRUE)), img))
    /\ pc' = "print2x"
    /\ UNCHANGED <<script, lib, files, frame, taken, args, img, stroke, png_bytes, dirs,
                   stdout, stderr, status, data, text, fn>>

\* print(f"Generated icon_{size}x{size}@2x.png")
GAPrint2x ==
    /\ script = "generate_app_icon" /\ pc = "print2x"
    /\ stdout' = Append(stdout, <<"Generated ">> \o IconsetName(sizes[taken], TRUE))
    /\ pc' = "loop"
    /\ UNCHANGED <<script, lib, files, frame, taken, args, img, stroke, png_bytes, disk,
                   dirs, stderr, status, data, text, fn>>

GADone ==
    /\ script = "generate_app_icon" /\ pc = "loop" /\ taken = Len(sizes)
    /\ stdout' = stdout \o << <<"\nIconset created at: ", iconset_dir>>,
                              <<"\nTo convert to .icns, run:">>,
                              <<"  iconutil -c icns ", iconset_dir>> >>
    /\ Exit
    /\ UNCHANGED <<script, lib, files, taken, args, img, stroke, png_bytes, disk, dirs,
                   stderr, data, text, fn>>

(***************************************************************************)
(* png_to_go.py: main                                                      *)
(***************************************************************************)
\* os.path.exists(filename)
Exists(f) == f.kind # "missing"

\* the four prints that open the function block of a color
BlockHeader(color) ==
    << <<"// icon", Capitalize(color), " returns a ", color, " status icon.">>,
       <<"// 22x22 PNG with transparency, optimized for macOS menu bar.">>,
       <<"func icon", Capitalize(color), "() []byte {">>,
       <<"\treturn []byte{">> >>

\* print(bytes_str) and the three prints that close the block
BlockFooter(bytes_str) ==
    << <<"bytes_str", bytes_str>>, <<"\t}">>, <<"}">>, <<>> >>

PGMainStart ==
    /\ script = "png_to_go" /\ pc = "main"
    /\ stdout' = stdout \o << <<"// Generated icon data - DO NOT EDIT MANUALLY">>,
                              <<"// Generated from assets/menubar-icons/*.png">>,
                              <<>> >>
    /\ pc' = "loop"
    /\ frame' = "main"
    /\ taken' = 0
    /\ UNCHANGED <<script, lib, files, args, img, stroke, png_bytes, disk, dirs,
                   stderr, status, data, text, fn>>

\* (variant: break instead of continue)
PGMissingStops ==
    /\ script = "png_to_go" /\ pc = "loop" /\ taken < Len(IconNames)
    /\ ~Exists(files[taken + 1])
    /\ taken' = Len(IconNames)
    /\ stderr' = Append(stderr, <<"Error: ">> \o CirclePath(IconNames[taken + 1])
                                 \o <<" not found">>)
    /\ UNCHANGED <<script, lib, files, pc, frame, args, img, stroke, png_bytes, disk, dirs,
                   stdout, status, data, text, fn>>

\* if not os.path.exists(filename): print(error, file=sys.stderr); continue
PGMissing ==
    /\ script = "png_to_go" /\ pc = "loop" /\ taken < Len(IconNames)
    /\ ~Exists(files[taken + 1])
    /\ taken' = taken + 1
    /\ stderr' = Append(stderr, <<"Error: ">> \o CirclePath(IconNames[taken + 1])
                                 \o <<" not found">>)
    /\ UNCHANGED <<script, lib, files, pc, frame, args, img, stroke, png_bytes, disk, dirs,
                   stdout, status, data, text, fn>>

\* the file exists: the header of its block is printed
PGHeader ==
    /\ script = "png_to_go" /\ pc = "loop" /\ taken < Len(IconNames)
    /\ Exists(files[taken + 1])
    /\ taken' = taken + 1
    /\ stdout' = stdout \o BlockHeader(IconNames[taken + 1])
    /\ pc' = "convert"
    /\ UNCHANGED <<script, lib, files, frame, args, img, stroke, png_bytes, disk, dirs,
                   stderr, status, data, text, fn>>

\* bytes_str = png_to_go_bytes(filename): the file is read and converted
PGConvert ==
    /\ script = "png_to_go" /\ pc = "convert"
    /\ files[taken].kind = "file"
    /\ text' = png_to_go_bytes(files[taken].bytes)
    /\ pc' = "footer"
    /\ UNCHANGED <<script, lib, files, frame, taken, args, img, stroke, png_bytes, disk,
                   dirs, stdout, stderr, status, data, fn>>

\* open(png_path, 'rb') raises OSError: nothing catches it
PGConvertFail ==
    /\ script = "png_to_go" /\ pc = "convert"
    /\ files[taken].kind = "unreadable"
    /\ Raise("OSError")
    /\ UNCHANGED <<script, lib, files, taken, args, img, stroke, png_bytes, disk, dirs,
                   stdout, data, text, fn>>

PGFooter ==
    /\ script = "png_to_go" /\ pc = "footer"
    /\ stdout' = stdout \o BlockFooter(text)
    /\ pc' = "loop"
    /\ UNCHANGED <<script, lib, files, frame, taken, args, img, stroke, png_bytes, disk,
                   dirs, stderr, status, data, text, fn>>

PGDone ==
    /\ script = "png_to_go" /\ pc = "loop" /\ taken = Len(IconNames)
    /\ Exit
    /\ UNCHANGED <<script, lib, files, taken, args, img, stroke, png_bytes, disk, dirs,
                   stdout, stderr, data, text, fn>>

(***************************************************************************)
(* Specifications.                                                         *)
(***************************************************************************)
Init == RunInit

Next ==
    \/ ImportOk \/ ImportFail \/ WriteFail
    \/ GIMainStart \/ GICircleCall \/ GICircleDone \/ GIDocCall \/ GIDocDone
    \/ CircleNew \/ CircleDraw \/ CircleSave \/ CirclePrint \/ CircleReturn
    \/ DocNew \/ DocDraw \/ DocSave \/ DocPrint \/ DocReturn
    \/ GMMainStart \/ GMCall \/ GMConvertPrint \/ GMWrite \/ GMPrint \/ GMDone
    \/ IconNew \/ IconDraw \/ IconEncode \/ IconReturn
    \/ GAMakedirs \/ GACall \/ GASave \/ GAPrint \/ GARetinaCall \/ GARetinaSkip
    \/ GASave2x \/ GAPrint2x \/ GADone
    \/ AppNew \/ AppBody \/ AppStroke \/ AppPen \/ AppReturn
    \/ PGMainStart \/ PGMissing \/ PGHeader \/ PGConvert \/ PGConvertFail
    \/ PGFooter \/ PGDone

Spec == Init /\ [][Next]_vars

(***************************************************************************)
(* The exporters as pure functions: the input is drawn from byte sequences *)
(* of every length 0..MaxLen and one exporter is applied to it.            *)
(***************************************************************************)
MaxLen == 26

Starts == {0, 137, 250}
Steps == {0, 1, 17, 85}

Inputs == {Ramp(n, s, t) : n \in 0..MaxLen, s \in Starts, t \in Steps}

\* no script runs
NoRun ==
    /\ script = "none"
    /\ lib = TRUE
    /\ files = [n \in 1..Len(IconNames) |-> FileOf("missing", <<>>)]
    /\ pc = "idle"
    /\ frame = "none"
    /\ taken = 0
    /\ args = NoArgs
    /\ img = NoImage
    /\ stroke = 0
    /\ png_bytes = <<>>
    /\ disk = <<>>
    /\ dirs = {}
    /\ stdout = <<>>
    /\ stderr = <<>>
    /\ status = Running

ExportInit ==
    /\ NoRun
    /\ data \in Inputs
    /\ text = <<>>
    /\ fn = "none"

CallPngToGoBytes ==
    /\ fn = "none"
    /\ text' = png_to_go_bytes(data)
    /\ fn' = "png_to_go_bytes"
    /\ UNCHANGED <<data, runvars>>

CallBytesToGoArray ==
    /\ fn = "none"
    /\ text' = bytes_to_go_array(data)
    /\ fn' = "bytes_to_go_array"
    /\ UNCHANGED <<data, runvars>>

ExportNext == CallPngToGoBytes \/ CallBytesToGoArray

SpecExport == ExportInit /\ [][ExportNext]_vars

(***************************************************************************)
(* create_circle_icon called on its own, with any color of TestColors.     *)
(***************************************************************************)
Channels == {0, 52, 89, 199, 255}

TestColors == {<<r, g, b>> : r \in Channels, g \in Channels, b \in Channels}

CircleInit ==
    /\ script = "generate_icons"
    /\ lib = TRUE
    /\ files = [n \in 1..Len(IconNames) |-> FileOf("missing", <<>>)]
    /\ pc = "new"
    /\ frame = "create_circle_icon"
    /\ taken = 0
    /\ args \in {[color |-> c, output_path |-> <<"icon.png">>, size |-> 22,
                  ret |-> "returned"] : c \in TestColors}
    /\ img = NoImage
    /\ stroke = 0
    /\ png_bytes = <<>>
    /\ disk = <<>>
    /\ dirs = {}
    /\ stdout = <<>>
    /\ stderr = <<>>
    /\ status = Running
    /\ data = <<>>
    /\ text = <<>>
    /\ fn = "none"

CircleNext ==
    \/ CircleNew \/ CircleDraw \/ CircleSave \/ WriteFail \/ CirclePrint \/ CircleReturn

SpecCircle == CircleInit /\ [][CircleNext]_vars

(***************************************************************************)
(* Properties of the exporters (checked under SpecExport).                 *)
(***************************************************************************)
Exported == fn # "none"

CeilDiv(n, d) == (n + d - 1) \div d

Last(q) == q[Len(q)]

\* C1: both exporters round-trip: the 0xNN literals of the emitted lines,
\* read top to bottom and left to right, are exactly the input bytes (same
\* length, same values, same order), for every input length 0..MaxLen.
RoundTrip == Exported => Decode(text) = data

\* C1 witness: a 25-byte input went through png_to_go_bytes and reads back.
RoundTripWitness ==
    /\ fn = "png_to_go_bytes" /\ Len(data) = 25 /\ data[1] = 250 /\ data[2] = 11
    /\ Len(Decode(text)) = 25

\* C2: an input of n bytes gives exactly ceil(n/12) lines, every line but
\* the last holding 12 literals, the last holding n - 12*(ceil(n/12)-1)
\* (1..12), and an empty input gives no line.
LineCounts ==
    Exported =>
        LET n == Len(data)
            ls == LinesOf(text)
            c == CeilDiv(n, 12)
        IN  /\ Len(ls) = c
            /\ \A m \in 1..Len(ls) :
                  Len(Literals(ls[m])) = (IF m < c THEN 12 ELSE n - 12 * (c - 1))
            /\ c > 0 => (n - 12 * (c - 1)) \in 1..12
            /\ n = 0 => text = <<>>

\* C2 witness: bytes_to_go_array gave a 14-byte input 2 lines of 12 and 2.
LineCountsWitness ==
    /\ fn = "bytes_to_go_array" /\ Len(data) = 14
    /\ Len(LinesOf(text)) = 2
    /\ Len(Literals(LinesOf(text)[1])) = 12
    /\ Len(Literals(LinesOf(text)[2])) = 2

\* the trailing partial line is emitted: the last line holds the last
\* n mod 12 input bytes
PartialLineEmitted ==
    LET n == Len(data)
        ls == LinesOf(text)
    IN  /\ Len(ls) = CeilDiv(n, 12)
        /\ Literals(Last(ls)) = SubSeq(data, n - (n % 12) + 1, n)

\* the line ends with its last literal: no comma after it
EndsWithLiteral(line, b) ==
    /\ Len(line) >= 4
    /\ SubSeq(line, Len(line) - 3, Len(line)) = HexLiteral(b)

\* the line ends with a comma right after its last literal
EndsWithComma(line, b) ==
    /\ Len(line) >= 5
    /\ Last(line) = COMMA
    /\ SubSeq(line, Len(line) - 4, Len(line) - 1) = HexLiteral(b)

\* C3 as stated: for every length that is no multiple of 12, each exporter
\* emits the trailing partial line and that line ends with its last hex
\* literal, no comma after it.
NoDanglingSeparator ==
    (Exported /\ Len(data) % 12 # 0) =>
        /\ PartialLineEmitted
        /\ EndsWithLiteral(Last(LinesOf(text)), Last(data))

\* C3 amended: both exporters emit the trailing partial line; that of
\* bytes_to_go_array ends with its last literal, that of png_to_go_bytes
\* ends with a comma after its last literal.
TrailingLine ==
    (Exported /\ Len(data) % 12 # 0) =>
        /\ PartialLineEmitted
        /\ fn = "bytes_to_go_array" => EndsWithLiteral(Last(LinesOf(text)), Last(data))
        /\ fn = "png_to_go_bytes" => EndsWithComma(Last(LinesOf(text)), Last(data))

\* C3 witness: png_to_go_bytes ended the partial line of a 13-byte input
\* with a comma.
TrailingLineWitness ==
    /\ fn = "png_to_go_bytes" /\ Len(data) = 13
    /\ Len(LinesOf(text)) = 2
    /\ Last(text) = COMMA

(***************************************************************************)
(* Properties of png_to_go.py's main (checked under Spec).                 *)
(***************************************************************************)
\* every input file is either missing or a readable file
MissingOrPresent == \A n \in 1..Len(IconNames) : files[n].kind \in {"missing", "file"}

\* what the error stream must hold after items 1..n: one line per missing
\* file, in order
RECURSIVE ExpectedErrors(_)
ExpectedErrors(n) ==
    IF n = 0 THEN <<>>
    ELSE ExpectedErrors(n - 1) \o
         (IF files[n].kind = "missing"
          THEN << <<"Error: ", "icon-", IconNames[n], "-22.png", " not found">> >>
          ELSE <<>>)

\* what standard output must hold after the three preamble lines: one
\* complete function block per present file, in order
RECURSIVE ExpectedBlocks(_)
ExpectedBlocks(n) ==
    IF n = 0 THEN <<>>
    ELSE ExpectedBlocks(n - 1) \o
         (IF files[n].kind = "file"
          THEN BlockHeader(IconNames[n]) \o BlockFooter(png_to_go_bytes(files[n].bytes))
          ELSE <<>>)

\* the lines of standard output that open a function block
OpeningLines == SelectSeq(stdout, LAMBDA l : Len(l) = 3 /\ l[1] = "func icon")

\* C4: whatever subset of the three input files is missing, the loop visits
\* green, yellow, red in order: one error line per missing file and no block
\* for it, one complete block per present file, and a missing file never
\* stops the items after it.
MissingFilesSkipped ==
    (script = "png_to_go" /\ MissingOrPresent) =>
        /\ pc # "exited" => status = Running
        /\ pc = "loop" => /\ stderr = ExpectedErrors(taken)
                          /\ SubSeq(stdout, 4, Len(stdout)) = ExpectedBlocks(taken)
        /\ pc = "exited" =>
              /\ status = 0
              /\ taken = Len(IconNames)
              /\ stderr = ExpectedErrors(Len(IconNames))
              /\ SubSeq(stdout, 4, Len(stdout)) = ExpectedBlocks(Len(IconNames))
              /\ Len(OpeningLines) + Len(stderr) = Len(IconNames)

\* C4 witness: green is missing, yellow and red are present, and the run
\* ended with one error line and the two blocks of yellow and red.
MissingFilesSkippedWitness ==
    /\ script = "png_to_go" /\ pc = "exited"
    /\ files[1].kind = "missing" /\ files[2].kind = "file" /\ files[3].kind = "file"
    /\ Len(files[3].bytes) > 0
    /\ Len(stderr) = 1
    /\ OpeningLines = << <<"func icon", "Yellow", "() []byte {">>,
                         <<"func icon", "Red", "() []byte {">> >>

(***************************************************************************)
(* Properties of the drawing scripts (checked under Spec).                 *)
(***************************************************************************)
\* the artifacts a complete run writes: 6, 3, 13
TotalArtifacts ==
    CASE script = "generate_icons" -> 6
      [] script = "generate_menubar_icons" -> 3
      [] script = "generate_app_icon" -> 13
      [] OTHER -> 0

Exited == pc = "exited" /\ script \in PilScripts

\* the run got past the creation of its output directory (only
\* generate_iconset creates one)
OutputDirReady == script = "generate_app_icon" => iconset_dir \in dirs

\* C5 as stated: the exit status is non-zero only when the imaging library
\* cannot be imported; every other run, also one in which an individual
\* file write fails, completes all batch items and exits with status zero.
NonZeroOnlyWithoutLibrary ==
    (Exited /\ OutputDirReady) =>
        IF lib THEN status = 0 /\ Len(disk) = TotalArtifacts
        ELSE status # 0

\* C5 amended: a run exits with status 1 when the library cannot be imported
\* or when a write (os.makedirs, Image.save, open/write) raises: the error is
\* not caught, a traceback is printed and the remaining items are not
\* processed. A run with the library and no failing write completes all
\* items and exits with status 0.
ExitStatus ==
    Exited =>
        /\ status \in {0, 1}
        /\ status = 0 <=> (lib /\ stderr = <<>>)
        /\ status = 0 => Len(disk) = TotalArtifacts
        /\ ~lib => stderr = <<Traceback("ImportError")>> /\ disk = <<>> /\ stdout = <<>>
        /\ (lib /\ status = 1) =>
              /\ stderr = <<Traceback("OSError")>>
              /\ Len(disk) < TotalArtifacts

\* C5 witness: generate_iconset stopped with status 1 after five artifacts,
\* the library being there.
ExitStatusWitness ==
    /\ Exited /\ script = "generate_app_icon" /\ lib
    /\ status = 1 /\ Len(disk) = 5

InRasterizer == frame \in Rasterizers

\* C6 as stated: no step of a rasterizer call, from its call to its return,
\* writes a file or prints a line.
RasterizersPure == [][InRasterizer => UNCHANGED <<disk, dirs, stdout>>]_vars

CreatedLine == <<"Created: ">> \o args.output_path

\* C6 amended: create_icon and create_app_icon leave the filesystem and the
\* standard output unchanged; create_circle_icon and create_document_icon
\* each write one file, at output_path, and then print one line,
\* "Created: <output_path>", before they return.
RasterizerEffects ==
    [][/\ frame \in {"create_icon", "create_app_icon"} =>
             UNCHANGED <<disk, dirs, stdout>>
       /\ frame \in {"create_circle_icon", "create_document_icon"} =>
             /\ dirs' = dirs
             /\ \/ UNCHANGED <<disk, stdout>>
                \/ /\ pc = "save"
                   /\ disk' = Append(disk, ImageFile(args.output_path, img))
                   /\ stdout' = stdout
                \/ /\ pc = "print"
                   /\ Last(disk).path = args.output_path
                   /\ stdout' = Append(stdout, CreatedLine)
                   /\ disk' = disk
             /\ pc = "return" =>
                   /\ Last(disk).path = args.output_path
                   /\ Last(stdout) = CreatedLine
                   /\ UNCHANGED <<disk, stdout>>
      ]_vars

\* C6 witness: create_document_icon is about to return, its file written
\* and its line printed.
RasterizerEffectsWitness ==
    /\ frame = "create_document_icon" /\ pc = "return"
    /\ Len(disk) = 3 + taken
    /\ Last(disk).path = args.output_path
    /\ Last(stdout) = CreatedLine

\* the files generate_iconset is to write, from size n of sizes on: for each
\* size s a regular s x s image, and a 2s x 2s @2x image iff s <= 512
RECURSIVE ExpectedIconset(_)
ExpectedIconset(n) ==
    IF n > Len(sizes) THEN <<>>
    ELSE LET s == sizes[n]
             dir == <<"/tmp/Legible.iconset", "/">>
             regular == [path |-> dir \o <<"icon_", ToString(s), "x", ToString(s), ".png">>,
                         w |-> s, h |-> s]
             retina == [path |-> dir \o <<"icon_", ToString(s), "x", ToString(s), "@2x.png">>,
                        w |-> 2 * s, h |-> 2 * s]
         IN  (IF s <= 512 THEN <<regular, retina>> ELSE <<regular>>)
             \o ExpectedIconset(n + 1)

\* path and canvas dimensions of a written image
Written(f) == [path |-> f.path, w |-> f.w, h |-> f.h]

\* C7: generate_iconset writes, for each size s of 16..1024, one regular
\* s x s image and one 2s x 2s @2x image iff s <= 512; the canvas has the
\* requested dimensions from its creation to its save.
IconsetDimensions ==
    script = "generate_app_icon" =>
        /\ sizes = <<16, 32, 64, 128, 256, 512, 1024>>
        /\ Len(disk) <= Len(ExpectedIconset(1))
        /\ \A n \in 1..Len(disk) : Written(disk[n]) = ExpectedIconset(1)[n]
        /\ (pc = "exited" /\ status = 0) => Len(disk) = Len(ExpectedIconset(1))
        /\ (frame = "create_app_icon" /\ pc # "new") =>
              img.w = args.size /\ img.h = args.size
        /\ pc \in {"save", "save2x"} => img.w = args.size /\ img.h = args.size

\* C7 witness: the run is complete; the @2x image of 512 is 1024 x 1024 and
\* the last image written is the regular 1024 x 1024 one.
IconsetDimensionsWitness ==
    /\ script = "generate_app_icon" /\ pc = "exited" /\ status = 0
    /\ Written(disk[12]) =
          [path |-> <<iconset_dir, "/", "icon_", "512", "x", "512", "@2x.png">>,
           w |-> 1024, h |-> 1024]
    /\ Written(Last(disk)) =
          [path |-> <<iconset_dir, "/", "icon_", "1024", "x", "1024", ".png">>,
           w |-> 1024, h |-> 1024]

\* a confirmation line of one of the drivers
IsConfirmation(l) == Len(l) > 0 /\ l[1] \in {"Created: ", "Saved to: ", "Generated "}

Confirmations == SelectSeq(stdout, IsConfirmation)

\* the path of the artifact a confirmation line names
ArtifactOf(l) ==
    IF l[1] = "Generated " THEN <<"/tmp/Legible.iconset", "/">> \o Tail(l) ELSE Tail(l)

\* C9: in every driver run one confirmation line is printed per artifact
\* written, after the artifact's write, never for an artifact that was not
\* written; a complete run gives 6, 3 and 13 artifacts and lines.
OneConfirmationPerArtifact ==
    script \in PilScripts =>
        /\ Len(Confirmations) <= Len(disk)
        /\ Len(disk) <= Len(Confirmations) + 1
        /\ \A n \in 1..Len(Confirmations) : ArtifactOf(Confirmations[n]) = disk[n].path
        /\ \A m, n \in 1..Len(disk) : disk[m].path = disk[n].path => m = n
        /\ pc = "exited" => Len(Confirmations) = Len(disk)
        /\ (pc = "exited" /\ status = 0) => Len(disk) = TotalArtifacts

\* C9 witness: generate_icons.main is complete with 6 artifacts and 6 lines.
OneConfirmationPerArtifactWitness ==
    /\ script = "generate_icons" /\ pc = "exited" /\ status = 0
    /\ Len(disk) = 6 /\ Len(Confirmations) = 6

\* the kinds of the drawing calls made on a canvas, in order
Kinds(im) == [n \in 1..Len(im.shapes) |-> im.shapes[n].kind]

AppLayout == <<"rounded_rectangle", "rounded_rectangle", "rounded_rectangle",
               "line", "line", "line", "line", "ellipse", "ellipse">>

RequestedSizes == {16, 32, 64, 128, 256, 512, 1024}

\* y + int(20*scale) < screen_rect[3] for stroke n, scale = size/512
GuardHolds(size, n) ==
    LET int(c) == (c * size) \div 512
        bottom == size - int(40) - int(20)
        y == int(40) + int(20) + int(60) + n * int(50)
    IN  y + int(20) < bottom

\* C10: at every size the iconset driver requests, the guard of each of the
\* three handwriting strokes holds, no stroke is skipped and the sequence of
\* shapes drawn is the same.
SameLayoutAtEverySize ==
    frame = "create_app_icon" =>
        /\ args.size \in RequestedSizes
        /\ \A n \in 0..2 : GuardHolds(args.size, n)
        /\ pc = "strokes" => Kinds(img) = SubSeq(AppLayout, 1, 3 + stroke)
        /\ pc = "return" => Kinds(img) = AppLayout

\* C10 witness: the 16 x 16 icon is complete with its three strokes drawn.
SameLayoutAtEverySizeWitness ==
    /\ frame = "create_app_icon" /\ pc = "return" /\ args.size = 16
    /\ Len(img.shapes) = 9
    /\ img.shapes[6].kind = "line"

(***************************************************************************)
(* Properties of create_circle_icon (checked under SpecCircle).            *)
(***************************************************************************)
Pixels == (0..21) \X (0..21)

\* the pixels of an image with the circle drawn: the center has the color,
\* fully opaque; the corners and everything outside (3,3)..(19,19) are
\* (0, 0, 0, 0)
CirclePixels(im, color) ==
    /\ im.w = 22 /\ im.h = 22
    /\ GetPixel(im, 11, 11) = <<color[1], color[2], color[3], 255>>
    /\ \A q \in {<<0, 0>>, <<0, 21>>, <<21, 0>>, <<21, 21>>} :
          GetPixel(im, q[1], q[2]) = <<0, 0, 0, 0>>
    /\ \A q \in Pixels :
          (q[1] < 3 \/ q[1] > 19 \/ q[2] < 3 \/ q[2] > 19) =>
              GetPixel(im, q[1], q[2]) = <<0, 0, 0, 0>>

\* C8: after create_circle_icon(color, path, size=22) the center pixel is
\* (r, g, b, 255) and every pixel no drawing call covers, the corners and
\* all outside the bounding box (3,3)..(19,19), is (0, 0, 0, 0).
CircleIconPixels ==
    (pc \in {"save", "print", "return", "returned"} /\ args.size = 22) =>
        /\ CirclePixels(img, args.color)
        /\ \A n \in 1..Len(disk) : CirclePixels(disk[n], args.color)

\* C8 witness: the call with (52, 199, 89) returned, the saved file's center
\* pixel is (52, 199, 89, 255) and its corner is transparent.
CircleIconPixelsWitness ==
    /\ pc = "returned" /\ args.color = <<52, 199, 89>>
    /\ Len(disk) = 1
    /\ GetPixel(disk[1], 11, 11) = <<52, 199, 89, 255>>
    /\ GetPixel(disk[1], 0, 0) = <<0, 0, 0, 0>>

====
